---------------------------- MODULE Spec2Model ----------------------------
(***************************************************************************)
(* State-machine model of src/monitor_screen.py: FixedScreenTextMonitor    *)
(* (target table, Idle/Running flag, monitor threads, overlay list) and    *)
(* TimedOverlay (placement, timer, destroy).                               *)
(*                                                                         *)
(* Strings are sequences of one-character strings, so that strip(),        *)
(* lower(), ==, `in` and the difflib ratio are computed, not assumed.      *)
(* UI handlers run on the Tk main loop and are atomic with respect to one  *)
(* another; each monitor thread advances one statement group at a time     *)
(* and interleaves freely with the handlers and with other threads.        *)
(* Of the widgets only status_label is state here: the statistics label,   *)
(* the result text and the debug list (last_detected_texts) are written    *)
(* and never read back by the monitoring code, and test_detection only     *)
(* fills them.                                                             *)
(***************************************************************************)
EXTENDS Integers, Sequences, FiniteSets, TLC

VARIABLES
    monitoring,            \* self.monitoring
    target_strings,        \* self.target_strings: insertion-ordered dict, as a
                           \* sequence of [pattern, note] with distinct patterns
    target_listbox,        \* self.target_listbox: the target part of each row
    match_mode,            \* self.match_mode (StringVar)
    confidence_threshold,  \* self.confidence_threshold (IntVar)
    overlay_configs,       \* self.overlay_configs: match_type -> OverlayConfig
    overlay_windows,       \* self.overlay_windows: sequence of overlay ids
    overlays,              \* the TimedOverlay objects, by slot
    detection_count,       \* self.detection_count
    status_label,          \* text of self.status_label
    screen_width,          \* self.screen_width
    screen_height,         \* self.screen_height
    closed,                \* on_closing has run: the main loop has ended
    pc,                    \* per monitor thread: position in monitor_screen
    data,                  \* per thread: local `data` of find_text_matches
    thr,                   \* per thread: local `confidence_threshold`
    mode,                  \* per thread: local `match_mode`
    row,                   \* per thread: index i of the for loop at line 428
    matches,               \* per thread: local `matches`
    next_match,            \* per thread: index of the for loop at line 569
    stop_seen              \* per thread: stop_monitoring ran since the thread's
                           \* current cycle passed the `while` test (history)

vars == <<monitoring, target_strings, target_listbox, match_mode,
          confidence_threshold, overlay_configs, overlay_windows, overlays,
          detection_count, status_label, screen_width, screen_height, closed,
          pc, data, thr, mode, row, matches, next_match, stop_seen>>

config_vars == <<target_strings, target_listbox, match_mode,
                 confidence_threshold, overlay_configs>>
screen_vars == <<screen_width, screen_height>>
local_vars  == <<data, thr, mode, row, matches, next_match>>

---------------------------------------------------------------------------
(* Bounds of the model *)

MaxThreads  == 2    \* monitor threads alive at one time
MaxOverlays == 2    \* TimedOverlay objects in existence at one time
MaxCount    == 1    \* cap of detection_count
MaxList     == 1    \* rows of the target listbox

Threads == 1..MaxThreads

---------------------------------------------------------------------------
(* Strings *)

Min(S) == CHOOSE x \in S : \A y \in S : x <= y
Max(S) == CHOOSE x \in S : \A y \in S : x >= y

\* str.lower() on one character of the model's alphabet
LowerChar(c) == CASE c = "A" -> "a"
                  [] c = "B" -> "b"
                  [] OTHER   -> c

\* str.lower()
Lower(s) == [i \in 1..Len(s) |-> LowerChar(s[i])]

\* str.strip(): drop leading and trailing white space
Strip(s) ==
    LET keep == {i \in 1..Len(s) : s[i] # " "}
    IN  IF keep = {} THEN <<>> ELSE SubSeq(s, Min(keep), Max(keep))

\* `p in s` for strings
IsSubstring(p, s) ==
    \E i \in 0..(Len(s) - Len(p)) : SubSeq(s, i + 1, i + Len(p)) = p

---------------------------------------------------------------------------
(* difflib.SequenceMatcher(None, a, b).ratio(), as fuzzy_match uses it.    *)
(* No junk: isjunk is None and autojunk only acts on b of 200+ elements.   *)

\* length of the common run of a[i..ahi] and b[j..bhi] starting at (i, j)
RunLength(a, b, i, j, ahi, bhi) ==
    LET lim == IF ahi - i < bhi - j THEN ahi - i + 1 ELSE bhi - j + 1
    IN  CHOOSE k \in 0..lim :
            /\ \A d \in 0..(k - 1) : a[i + d] = b[j + d]
            /\ (k = lim \/ a[i + k] # b[j + k])

\* find_longest_match on a[alo..ahi], b[blo..bhi] (1-based, inclusive):
\* the longest block; of those the earliest in a; of those the earliest in b
FindLongestMatch(a, b, alo, ahi, blo, bhi) ==
    LET size(i, j) == RunLength(a, b, i, j, ahi, bhi)
        best == Max({size(i, j) : i \in alo..ahi, j \in blo..bhi} \cup {0})
        bi   == Min({i \in alo..ahi : \E j \in blo..bhi : size(i, j) = best})
        bj   == Min({j \in blo..bhi : size(bi, j) = best})
    IN  IF best = 0 THEN [i |-> alo, j |-> blo, size |-> 0]
        ELSE [i |-> bi, j |-> bj, size |-> best]

\* sum of the sizes of get_matching_blocks(): the longest block, then the
\* pieces to its left and to its right, recursively
RECURSIVE MatchedLength(_, _, _, _, _, _)
MatchedLength(a, b, alo, ahi, blo, bhi) ==
    IF alo > ahi \/ blo > bhi THEN 0
    ELSE LET m == FindLongestMatch(a, b, alo, ahi, blo, bhi)
         IN  IF m.size = 0 THEN 0
             ELSE m.size
                  + MatchedLength(a, b, alo, m.i - 1, blo, m.j - 1)
                  + MatchedLength(a, b, m.i + m.size, ahi, m.j + m.size, bhi)

\* the fuzzy threshold 0.6 passed at line 446, in tenths
FuzzyTenths == 6

\* fuzzy_match(text, target, 0.6): ratio() = 2.0 * M / (len(a) + len(b)),
\* and 1.0 when both are empty; ratio >= 0.6 in exact arithmetic
fuzzy_match(text, target) ==
    LET a == Lower(text)
        b == Lower(target)
        M == MatchedLength(a, b, 1, Len(a), 1, Len(b))
        T == Len(a) + Len(b)
    IN  IF T = 0 THEN TRUE ELSE 2 * M * 10 >= FuzzyTenths * T

---------------------------------------------------------------------------
(* find_text_matches: the matching loop, lines 424-462 *)

\* the display label find_text_matches gives each mode
\* (ExactLabel, ContainsLabel, FuzzyLabel: the three keys of overlay_configs)
ExactLabel    == "exact_match"
ContainsLabel == "contains_match"
FuzzyLabel    == "fuzzy_match"
MatchTypes    == {ExactLabel, ContainsLabel, FuzzyLabel}
Modes         == {"exact", "contains", "fuzzy"}

match_type_of(m) ==
    CASE m = "exact"    -> ExactLabel
      [] m = "contains" -> ContainsLabel
      [] m = "fuzzy"    -> FuzzyLabel
      [] OTHER          -> ""

\* match_found with the Exact comparison made on the text as read, not lowered
match_found_case_sensitive(m, text, target_string) ==
    CASE m = "exact"    -> text = target_string
      [] m = "contains" -> \/ IsSubstring(Lower(target_string), Lower(text))
                           \/ IsSubstring(Lower(text), Lower(target_string))
      [] m = "fuzzy"    -> fuzzy_match(text, target_string)
      [] OTHER          -> FALSE

\* match_found with the Contains test made in one direction only
match_found_one_way(m, text, target_string) ==
    CASE m = "exact"    -> Lower(text) = Lower(target_string)
      [] m = "contains" -> IsSubstring(Lower(target_string), Lower(text))
      [] m = "fuzzy"    -> fuzzy_match(text, target_string)
      [] OTHER          -> FALSE

\* lines 439-447: the predicate of the mode, on the stripped text
match_found(m, text, target_string) ==
    CASE m = "exact"    -> Lower(text) = Lower(target_string)
      [] m = "contains" -> \/ IsSubstring(Lower(target_string), Lower(text))
                           \/ IsSubstring(Lower(text), Lower(target_string))
      [] m = "fuzzy"    -> fuzzy_match(text, target_string)
      [] OTHER          -> FALSE

\* passes_filter without the confidence test
passes_filter_any_conf(text, conf, threshold) == text # <<>>

\* line 432: `if text and conf >= confidence_threshold`
passes_filter(text, conf, threshold) == text # <<>> /\ conf >= threshold

\* lines 450-459: the TextMatch of fragment frag (stripped text) and a target
TextMatch(frag, text, note, m) ==
    [text |-> text, note |-> note, x |-> frag.left, y |-> frag.top,
     width |-> frag.width, height |-> frag.height,
     confidence |-> frag.conf, match_type |-> match_type_of(m)]

\* the inner loop that leaves at the first target found: one Match a fragment
RECURSIVE fragment_matches_first(_, _, _, _, _)
fragment_matches_first(frag, text, targets, m, k) ==
    IF k > Len(targets) THEN <<>>
    ELSE IF match_found(m, text, targets[k].pattern)
         THEN <<TextMatch(frag, text, targets[k].note, m)>>
         ELSE fragment_matches_first(frag, text, targets, m, k + 1)

\* lines 435-460: the inner loop over self.target_strings.items(), from k on
RECURSIVE fragment_matches(_, _, _, _, _)
fragment_matches(frag, text, targets, m, k) ==
    IF k > Len(targets) THEN <<>>
    ELSE (IF match_found(m, text, targets[k].pattern)
          THEN <<TextMatch(frag, text, targets[k].note, m)>>
          ELSE <<>>)
         \o fragment_matches(frag, text, targets, m, k + 1)

\* lines 429-460: one turn of the outer loop, on one OCR row
row_matches(frag, targets, m, threshold) ==
    LET text == Strip(frag.text)
    IN  IF passes_filter(text, frag.conf, threshold)
        THEN fragment_matches(frag, text, targets, m, 1)
        ELSE <<>>

\* lines 428-460: the outer loop over the OCR rows, from i on, when the
\* target table does not change while it runs
RECURSIVE find_text_matches(_, _, _, _, _)
find_text_matches(rows, targets, m, threshold, i) ==
    IF i > Len(rows) THEN <<>>
    ELSE row_matches(rows[i], targets, m, threshold)
         \o find_text_matches(rows, targets, m, threshold, i + 1)

---------------------------------------------------------------------------
(* TimedOverlay.__init__: placement, lines 44-55 *)

OverlayWidth  == 250
OverlayHeight == 60
GapX          == 10
GapY          == 5

x_pos(match, sw) ==
    LET x0 == match.x + match.width + GapX
    IN  IF x0 + OverlayWidth > sw THEN match.x - OverlayWidth ELSE x0

\* the vertical placement without the test at line 52
y_pos_unclamped(match, sh) ==
    LET y0 == match.y - GapY
    IN  IF y0 < 0 THEN match.y + match.height + GapY ELSE y0

\* lines 46 and 50-53: above the fragment, below it at the top edge, and
\* moved up to the bottom edge
y_pos(match, sh) ==
    LET y0 == match.y - GapY
        y1 == IF y0 < 0 THEN match.y + match.height + GapY ELSE y0
    IN  IF y1 + OverlayHeight > sh THEN sh - OverlayHeight ELSE y1

---------------------------------------------------------------------------
(* TimedOverlay *)

\* OverlayConfig, lines 25-32 (seconds and alpha in tenths)
OverlayConfig(duration, bg, fg, font, alpha, border) ==
    [display_duration |-> duration, bg_color |-> bg, text_color |-> fg,
     font_size |-> font, alpha |-> alpha, border_width |-> border]

\* the three default styles, lines 98-102
DefaultConfigs ==
    [mt \in MatchTypes |->
        CASE mt = ExactLabel    -> OverlayConfig(30, "#00FF00", "#000000", 10, 9, 2)
          [] mt = ContainsLabel -> OverlayConfig(25, "#FFD700", "#000000", 9, 9, 2)
          [] mt = FuzzyLabel    -> OverlayConfig(20, "#FF6B6B", "#FFFFFF", 9, 9, 2)]

\* lines 40-61: the options given to the Toplevel and to its Label
widget_options(config) ==
    [bg_color |-> config.bg_color, text_color |-> config.text_color,
     font_size |-> config.font_size, alpha |-> config.alpha,
     border_width |-> config.border_width]

\* TimedOverlay.__init__, lines 36-67: the widgets get their options, the
\* window is placed, and the timer is set when display_duration > 0, with
\* the delay that display_duration gives at that moment
TimedOverlay(match, config, sw, sh) ==
    [alive      |-> TRUE,
     x          |-> x_pos(match, sw),
     y          |-> y_pos(match, sh),
     timer      |-> config.display_duration > 0,
     delay      |-> IF config.display_duration > 0
                    THEN config.display_duration ELSE 0,
     match_type |-> match.match_type,
     shown      |-> widget_options(config)]

\* destroy that puts an already destroyed window back on screen
destroy_revives(o) == [o EXCEPT !.alive = ~o.alive, !.timer = FALSE]

\* TimedOverlay.destroy, lines 69-73: idempotent; Tk deletes the callbacks
\* registered on a destroyed window, so its pending timer goes with it
destroy(o) == [o EXCEPT !.alive = FALSE, !.timer = FALSE]

\* a slot that holds no TimedOverlay
NoOverlay ==
    [alive |-> FALSE, x |-> 0, y |-> 0, timer |-> FALSE, delay |-> 0,
     match_type |-> "",
     shown |-> widget_options(OverlayConfig(0, "", "", 0, 0, 0))]

Range(q) == {q[i] : i \in DOMAIN q}

\* a destroyed overlay that overlay_windows does not list is unreachable:
\* Python frees it
collect(ovs, windows) ==
    [o \in DOMAIN ovs |->
        IF ~ovs[o].alive /\ o \notin Range(windows) THEN NoOverlay ELSE ovs[o]]

\* the slots free for a new TimedOverlay
FreeSlots == {o \in DOMAIN overlays :
                 ~overlays[o].alive /\ o \notin Range(overlay_windows)}

\* root.destroy(): every Toplevel and every pending `after` goes with the root
root_destroy(ovs) == [o \in DOMAIN ovs |-> destroy(ovs[o])]

\* clear_overlays, lines 544-550: destroy each listed window
clear_overlays(ovs, windows) ==
    [o \in DOMAIN ovs |-> IF o \in Range(windows) THEN destroy(ovs[o]) ELSE ovs[o]]

\* preview_overlay's fake_match, lines 330-336
fake_match(mt) ==
    [text |-> <<"p">>, note |-> "preview", x |-> 100, y |-> 100,
     width |-> 80, height |-> 20, confidence |-> 95, match_type |-> mt]

---------------------------------------------------------------------------
(* The target table: a dict in insertion order *)

HasKey(d, k) == \E i \in DOMAIN d : d[i].pattern = k

\* d[k] = v
DictSet(d, k, v) ==
    IF HasKey(d, k)
    THEN [i \in DOMAIN d |-> IF d[i].pattern = k THEN [pattern |-> k, note |-> v]
                                                 ELSE d[i]]
    ELSE Append(d, [pattern |-> k, note |-> v])

\* del d[k]
DictDel(d, k) == SelectSeq(d, LAMBDA e : e.pattern # k)

\* listbox.delete(index)
DeleteAt(q, index) == SubSeq(q, 1, index - 1) \o SubSeq(q, index + 1, Len(q))

\* add_default_targets, lines 352-368; a short stand-in for the nine rows
Defaults == <<[target |-> <<"A", "b">>, note |-> "n1"]>>

RECURSIVE add_default_targets(_, _)
add_default_targets(d, k) ==
    IF k > Len(Defaults) THEN d
    ELSE add_default_targets(
             DictSet(d, Lower(Defaults[k].target), Defaults[k].note), k + 1)

default_listbox == [k \in DOMAIN Defaults |-> Defaults[k].target]

---------------------------------------------------------------------------
(* Inputs the environment and the user can supply *)

Frag(text, conf, left, top, width, height) ==
    [text |-> text, conf |-> conf, left |-> left, top |-> top,
     width |-> width, height |-> height]

\* results of pytesseract.image_to_data in the monitoring runs
FrameInputs ==
    { <<Frag(<<"A", "b", " ">>, 90, 1800, 50, 100, 20),
        Frag(<<"B">>, 95, 0, 0, 40, 20)>> }

EntryInputs     == { <<"B">>, <<" ">> }   \* string_entry contents
NoteInputs      == { "n2" }               \* note_entry contents, stripped
ScreenInputs    == { [w |-> 1920, h |-> 1080] }
PreviewInputs   == { FuzzyLabel }         \* preview buttons pressed

DefaultThreshold == 30

---------------------------------------------------------------------------
(* FixedScreenTextMonitor.__init__, lines 76-104, with setup_main_tab's     *)
(* match_mode, confidence_threshold and add_default_targets                *)

__init__(ts, tl, mon, ow, dc, oc, mm, ct, sl) ==
    /\ ts = add_default_targets(<<>>, 1)
    /\ tl = default_listbox
    /\ mon = FALSE
    /\ ow = <<>>
    /\ dc = 0
    /\ oc = DefaultConfigs
    /\ mm = "fuzzy"
    /\ ct = DefaultThreshold
    /\ sl = "idle"

\* no monitor thread exists
no_threads(p, d, th, mo, rw, ms, nm, ss) ==
    /\ p = [t \in Threads |-> "none"]
    /\ d = [t \in Threads |-> <<>>]
    /\ th = [t \in Threads |-> 0]
    /\ mo = [t \in Threads |-> ""]
    /\ rw = [t \in Threads |-> 1]
    /\ ms = [t \in Threads |-> <<>>]
    /\ nm = [t \in Threads |-> 1]
    /\ ss = [t \in Threads |-> FALSE]

Init ==
    /\ __init__(target_strings, target_listbox, monitoring, overlay_windows,
                detection_count, overlay_configs, match_mode,
                confidence_threshold, status_label)
    /\ no_threads(pc, data, thr, mode, row, matches, next_match, stop_seen)
    /\ overlays = [o \in 1..MaxOverlays |-> NoOverlay]
    /\ closed = FALSE
    /\ \E s \in ScreenInputs : screen_width = s.w /\ screen_height = s.h

---------------------------------------------------------------------------
(* Handlers of the Tk main loop *)

\* positions of monitor_screen inside one cycle's capture, OCR and matching
InFlight == {"capture", "ocr", "match"}

thread_vars == <<pc, local_vars, stop_seen>>

\* start_monitoring without the test of self.target_strings
start_monitoring_unguarded ==
    /\ ~closed
    /\ IF ~monitoring
       THEN /\ \E t \in Threads : pc[t] = "none"
            /\ LET t == Min({u \in Threads : pc[u] = "none"})
               IN  pc' = [pc EXCEPT ![t] = "while"]
            /\ monitoring' = TRUE
            /\ status_label' = "monitoring"
       ELSE UNCHANGED <<monitoring, pc, status_label>>
    /\ UNCHANGED <<config_vars, screen_vars, local_vars, stop_seen,
                   overlay_windows, overlays, detection_count, closed>>

\* start_monitoring without the test of self.monitoring
start_monitoring_again ==
    /\ ~closed
    /\ IF target_strings # <<>>
       THEN /\ \E t \in Threads : pc[t] = "none"
            /\ LET t == Min({u \in Threads : pc[u] = "none"})
               IN  pc' = [pc EXCEPT ![t] = "while"]
            /\ monitoring' = TRUE
            /\ status_label' = "monitoring"
       ELSE /\ status_label' = "need_targets"
            /\ UNCHANGED <<monitoring, pc>>
    /\ UNCHANGED <<config_vars, screen_vars, local_vars, stop_seen,
                   overlay_windows, overlays, detection_count, closed>>

\* start_monitoring, lines 530-537
start_monitoring ==
    /\ ~closed
    /\ IF ~monitoring /\ target_strings # <<>>
       THEN /\ \E t \in Threads : pc[t] = "none"
            /\ LET t == Min({u \in Threads : pc[u] = "none"})
               IN  pc' = [pc EXCEPT ![t] = "while"]
            /\ monitoring' = TRUE
            /\ status_label' = "monitoring"
       ELSE /\ status_label' = IF target_strings = <<>> THEN "need_targets"
                                                        ELSE status_label
            /\ UNCHANGED <<monitoring, pc>>
    /\ UNCHANGED <<config_vars, screen_vars, local_vars, stop_seen,
                   overlay_windows, overlays, detection_count, closed>>

\* stop_monitoring, lines 539-542, with clear_overlays
stop_monitoring ==
    /\ ~closed
    /\ monitoring' = FALSE
    /\ status_label' = "stopped"
    /\ overlay_windows' = <<>>
    /\ overlays' = collect(clear_overlays(overlays, overlay_windows), <<>>)
    /\ stop_seen' = [t \in Threads |-> stop_seen[t] \/ pc[t] \in InFlight]
    /\ UNCHANGED <<config_vars, screen_vars, pc, local_vars, detection_count,
                   closed>>

\* on_closing, lines 614-616: stop_monitoring, then root.destroy(); the main
\* loop returns and the process ends, its daemon threads with it
on_closing ==
    /\ ~closed
    /\ monitoring' = FALSE
    /\ status_label' = "stopped"
    /\ overlay_windows' = <<>>
    /\ overlays' = collect(root_destroy(clear_overlays(overlays, overlay_windows)),
                           <<>>)
    /\ closed' = TRUE
    /\ no_threads(pc', data', thr', mode', row', matches', next_match',
                  stop_seen')
    /\ UNCHANGED <<config_vars, screen_vars, detection_count>>

\* reset_styles, lines 341-350: root.destroy() and self.__init__() again;
\* the monitor threads are not touched
reset_styles ==
    /\ ~closed
    /\ __init__(target_strings', target_listbox', monitoring', overlay_windows',
                detection_count', overlay_configs', match_mode',
                confidence_threshold', status_label')
    /\ overlays' = collect(root_destroy(overlays), <<>>)
    /\ UNCHANGED <<screen_vars, thread_vars, closed>>

\* add_target, lines 374-382
add_target(entry, note) ==
    /\ ~closed
    /\ LET target_string == Strip(entry)
       IN  IF target_string # <<>> /\ note # ""
           THEN /\ Len(target_listbox) < MaxList
                /\ target_strings' =
                       DictSet(target_strings, Lower(target_string), note)
                /\ target_listbox' = Append(target_listbox, target_string)
           ELSE UNCHANGED <<target_strings, target_listbox>>
    /\ UNCHANGED <<monitoring, match_mode, confidence_threshold, overlay_configs,
                   screen_vars, thread_vars, overlay_windows, overlays,
                   detection_count, status_label, closed>>

\* remove_target, lines 384-395, with row `index` selected
remove_target(index) ==
    /\ ~closed
    /\ index \in DOMAIN target_listbox
    /\ LET target == Lower(target_listbox[index])
       IN  target_strings' = IF HasKey(target_strings, target)
                             THEN DictDel(target_strings, target)
                             ELSE target_strings
    /\ target_listbox' = DeleteAt(target_listbox, index)
    /\ UNCHANGED <<monitoring, match_mode, confidence_threshold, overlay_configs,
                   screen_vars, thread_vars, overlay_windows, overlays,
                   detection_count, status_label, closed>>

\* the match-mode radio buttons, lines 133-139
set_match_mode(m) ==
    /\ ~closed
    /\ match_mode' = m
    /\ UNCHANGED <<monitoring, target_strings, target_listbox,
                   confidence_threshold, overlay_configs, screen_vars,
                   thread_vars, overlay_windows, overlays, detection_count,
                   status_label, closed>>

\* the confidence scale, lines 146-154
set_confidence_threshold(v) ==
    /\ ~closed
    /\ confidence_threshold' = v
    /\ UNCHANGED <<monitoring, target_strings, target_listbox, match_mode,
                   overlay_configs, screen_vars, thread_vars, overlay_windows,
                   overlays, detection_count, status_label, closed>>

style_frame == <<monitoring, target_strings, target_listbox, match_mode,
                 confidence_threshold, screen_vars, thread_vars,
                 overlay_windows, detection_count, status_label, closed>>

\* update_time that also sets the delay of the live overlays of the style
update_time_restyles(mt, value) ==
    /\ ~closed
    /\ overlay_configs' = [overlay_configs EXCEPT ![mt].display_duration = value]
    /\ overlays' = [o \in DOMAIN overlays |->
                       IF overlays[o].alive /\ overlays[o].match_type = mt
                       THEN [overlays[o] EXCEPT !.delay = value]
                       ELSE overlays[o]]
    /\ UNCHANGED style_frame

\* update_time, lines 264-266: the time scale of one style section
update_time(mt, value) ==
    /\ ~closed
    /\ overlay_configs' = [overlay_configs EXCEPT ![mt].display_duration = value]
    /\ UNCHANGED <<style_frame, overlays>>

\* choose_color, lines 319-325, when a colour is picked; color_type is
\* "bg_color" or "text_color"
choose_color(mt, color_type, color) ==
    /\ ~closed
    /\ overlay_configs' = [overlay_configs EXCEPT ![mt][color_type] = color]
    /\ UNCHANGED <<style_frame, overlays>>

\* the trace on font_var, line 306
set_font_size(mt, value) ==
    /\ ~closed
    /\ overlay_configs' = [overlay_configs EXCEPT ![mt].font_size = value]
    /\ UNCHANGED <<style_frame, overlays>>

\* the trace on alpha_var, line 317
set_alpha(mt, value) ==
    /\ ~closed
    /\ overlay_configs' = [overlay_configs EXCEPT ![mt].alpha = value]
    /\ UNCHANGED <<style_frame, overlays>>

\* preview_overlay, lines 327-339: the overlay is not kept in overlay_windows
preview_overlay(mt) ==
    /\ ~closed
    /\ FreeSlots # {}
    /\ overlays' = [overlays EXCEPT ![Min(FreeSlots)] =
           TimedOverlay(fake_match(mt), overlay_configs[mt],
                        screen_width, screen_height)]
    /\ UNCHANGED <<monitoring, config_vars, screen_vars, thread_vars,
                   overlay_windows, detection_count, status_label, closed>>

\* the timer set at line 67 fires: self.destroy()
overlay_timer(o) ==
    /\ ~closed
    /\ overlays[o].timer
    /\ overlays' = collect([overlays EXCEPT ![o] = destroy(@)], overlay_windows)
    /\ UNCHANGED <<monitoring, config_vars, screen_vars, thread_vars,
                   overlay_windows, detection_count, status_label, closed>>

---------------------------------------------------------------------------
(* monitor_screen, lines 552-604, one monitor thread t *)

ui_frame == <<config_vars, screen_vars, status_label, closed>>

\* the thread's locals and its history flag, when its cycle is over
end_cycle(t) ==
    /\ data' = [data EXCEPT ![t] = <<>>]
    /\ thr' = [thr EXCEPT ![t] = 0]
    /\ mode' = [mode EXCEPT ![t] = ""]
    /\ row' = [row EXCEPT ![t] = 1]
    /\ matches' = [matches EXCEPT ![t] = <<>>]
    /\ next_match' = [next_match EXCEPT ![t] = 1]
    /\ stop_seen' = [stop_seen EXCEPT ![t] = FALSE]

\* line 554: `while self.monitoring`; the thread ends when the test fails
loop_test(t) ==
    /\ ~closed
    /\ pc[t] = "while"
    /\ pc' = [pc EXCEPT ![t] = IF monitoring THEN "capture" ELSE "none"]
    /\ UNCHANGED <<monitoring, ui_frame, local_vars, stop_seen, overlay_windows,
                   overlays, detection_count>>

\* a loop without the test at line 560: with no image the cycle goes on to
\* find_text_matches, which returns [] at line 418, and is counted
capture_screen_unchecked(t, ok) ==
    /\ ~closed
    /\ pc[t] = "capture"
    /\ pc' = [pc EXCEPT ![t] = IF ok THEN "ocr" ELSE "stats"]
    /\ UNCHANGED <<monitoring, ui_frame, local_vars, stop_seen,
                   overlay_windows, overlays, detection_count>>

\* lines 558-562: capture_screen returns an image, or None on any error
\* (lines 409-411); on None the thread sleeps 1 s and continues
capture_screen(t, ok) ==
    /\ ~closed
    /\ pc[t] = "capture"
    /\ pc' = [pc EXCEPT ![t] = IF ok THEN "ocr" ELSE "sleep_capture"]
    /\ stop_seen' = [stop_seen EXCEPT ![t] = IF ok THEN @ ELSE FALSE]
    /\ UNCHANGED <<monitoring, ui_frame, local_vars, overlay_windows, overlays,
                   detection_count>>

\* where the loop goes with `matches` in hand (line 569)
after_matching(ms) == IF ms = <<>> THEN "stats" ELSE "overlay"

\* lines 421-426: image_to_data returns rows; threshold and mode are read
image_to_data(t, rows) ==
    /\ ~closed
    /\ pc[t] = "ocr"
    /\ data' = [data EXCEPT ![t] = rows]
    /\ thr' = [thr EXCEPT ![t] = confidence_threshold]
    /\ mode' = [mode EXCEPT ![t] = match_mode]
    /\ pc' = [pc EXCEPT ![t] = IF rows = <<>> THEN after_matching(<<>>)
                                              ELSE "match"]
    /\ UNCHANGED <<monitoring, ui_frame, row, matches, next_match, stop_seen,
                   overlay_windows, overlays, detection_count>>

\* lines 464-467: image_to_data raises; find_text_matches returns []
ocr_error(t) ==
    /\ ~closed
    /\ pc[t] = "ocr"
    /\ pc' = [pc EXCEPT ![t] = after_matching(<<>>)]
    /\ UNCHANGED <<monitoring, ui_frame, local_vars, stop_seen, overlay_windows,
                   overlays, detection_count>>

\* lines 428-462: one turn of the loop over the rows, matched against
\* self.target_strings as it is at that moment; after the last row, line 467
\* returns the matches
match_row(t) ==
    /\ ~closed
    /\ pc[t] = "match"
    /\ LET ms == matches[t] \o row_matches(data[t][row[t]], target_strings,
                                           mode[t], thr[t])
       IN  /\ matches' = [matches EXCEPT ![t] = ms]
           /\ pc' = [pc EXCEPT ![t] = IF row[t] = Len(data[t])
                                      THEN after_matching(ms) ELSE "match"]
    /\ row' = [row EXCEPT ![t] = @ + 1]
    /\ UNCHANGED <<monitoring, ui_frame, data, thr, mode, next_match, stop_seen,
                   overlay_windows, overlays, detection_count>>

\* lines 428-462 and 467: the whole loop over the rows in one step, for the
\* runs in which no handler is served while the loop is at work
match_rows(t) ==
    /\ ~closed
    /\ pc[t] = "match"
    /\ row[t] = 1
    /\ LET ms == find_text_matches(data[t], target_strings, mode[t], thr[t], 1)
       IN  /\ matches' = [matches EXCEPT ![t] = ms]
           /\ pc' = [pc EXCEPT ![t] = after_matching(ms)]
    /\ row' = [row EXCEPT ![t] = Len(data[t]) + 1]
    /\ UNCHANGED <<monitoring, ui_frame, data, thr, mode, next_match, stop_seen,
                   overlay_windows, overlays, detection_count>>

\* create_overlay, lines 525-528
create_overlay(match) ==
    TimedOverlay(match, overlay_configs[match.match_type],
                 screen_width, screen_height)

\* lines 569-571: one turn of `for match in matches`
append_overlay(t) ==
    /\ ~closed
    /\ pc[t] = "overlay"
    /\ FreeSlots # {}
    /\ LET o == Min(FreeSlots)
       IN  /\ overlays' = [overlays EXCEPT
                              ![o] = create_overlay(matches[t][next_match[t]])]
           /\ overlay_windows' = Append(overlay_windows, o)
    /\ next_match' = [next_match EXCEPT ![t] = @ + 1]
    /\ pc' = [pc EXCEPT ![t] = IF next_match[t] = Len(matches[t])
                               THEN "stats" ELSE "overlay"]
    /\ UNCHANGED <<monitoring, ui_frame, data, thr, mode, row, matches,
                   stop_seen, detection_count>>

\* cycle_error with no handler around the cycle: the exception ends the thread
cycle_error_exits(t) ==
    /\ ~closed
    /\ pc[t] \in {"overlay", "stats"}
    /\ pc' = [pc EXCEPT ![t] = "none"]
    /\ end_cycle(t)
    /\ UNCHANGED <<monitoring, ui_frame, overlay_windows, overlays,
                   detection_count>>

\* lines 602-604: a Tk call of the cycle raises; the handler sleeps 1 s
cycle_error(t) ==
    /\ ~closed
    /\ pc[t] \in {"overlay", "stats"}
    /\ pc' = [pc EXCEPT ![t] = "sleep_error"]
    /\ end_cycle(t)
    /\ UNCHANGED <<monitoring, ui_frame, overlay_windows, overlays,
                   detection_count>>

\* lines 573-600: count the cycle, hand update_stats (and update_results) to
\* root.after, which write the statistics label and the result text; sleep
record_stats(t) ==
    /\ ~closed
    /\ pc[t] = "stats"
    /\ detection_count < MaxCount
    /\ detection_count' = detection_count + 1
    /\ pc' = [pc EXCEPT ![t] = "sleep"]
    /\ end_cycle(t)
    /\ UNCHANGED <<monitoring, ui_frame, overlay_windows, overlays>>

\* time.sleep returns (lines 561, 600, 604): back to the `while` test
wake(t) ==
    /\ ~closed
    /\ pc[t] \in {"sleep", "sleep_capture", "sleep_error"}
    /\ pc' = [pc EXCEPT ![t] = "while"]
    /\ UNCHANGED <<monitoring, ui_frame, local_vars, stop_seen, overlay_windows,
                   overlays, detection_count>>

\* every step of monitor thread t
monitor_screen(t) ==
    \/ loop_test(t)
    \/ \E ok \in BOOLEAN : capture_screen(t, ok)
    \/ \E rows \in FrameInputs : image_to_data(t, rows)
    \/ ocr_error(t)
    \/ match_rows(t)
    \/ append_overlay(t)
    \/ cycle_error(t)
    \/ record_stats(t)
    \/ wake(t)

---------------------------------------------------------------------------
(* The program *)

Next ==
    \/ start_monitoring
    \/ stop_monitoring
    \/ on_closing
    \/ reset_styles
    \/ \E e \in EntryInputs, n \in NoteInputs : add_target(e, n)
    \/ \E i \in 1..MaxList : remove_target(i)
    \/ \E mt \in PreviewInputs : preview_overlay(mt)
    \/ \E o \in 1..MaxOverlays : overlay_timer(o)
    \/ \E t \in Threads : monitor_screen(t)

Spec == Init /\ [][Next]_vars

\* time.sleep returns, and a thread back from its sleep is scheduled to take
\* the `while` test
FairSpec ==
    Spec /\ \A t \in Threads : WF_vars(wake(t)) /\ WF_vars(loop_test(t))

\* the Tk main loop serves every timer that is due
FairTimers ==
    Spec /\ \A o \in 1..MaxOverlays : WF_vars(overlay_timer(o))

---------------------------------------------------------------------------
(* The matching of one cycle, from the OCR call on, for bounded inputs:    *)
(* thread 1 is about to call image_to_data in a Running monitor, and the   *)
(* mode and the threshold may be edited while it runs.                     *)

Target(pattern, note) == [pattern |-> pattern, note |-> note]

\* target tables add_target can build: stripped, lowered, non-empty keys
MatchTables ==
    { <<>>,
      <<Target(<<"a", "b">>, "n1")>>,
      <<Target(<<"a", "b">>, "n1"), Target(<<"b">>, "n2")>>,
      <<Target(<<"b", "a">>, "n2"), Target(<<"a", " ", "b">>, "n3"),
        Target(<<"a">>, "n1")>> }

MatchTexts ==
    { <<>>, <<" ">>, <<"b">>, <<"A", "b">>, <<" ", "a", "B", " ">>,
      <<"a", "b", "b">>, <<"A", " ", "B">>, <<"B", "a">>, <<"b", "a", "b">> }
MatchConfs == { -1, 29, 30, 96 }
MatchThresholds == { 0, 30, 95 }

MatchFrames ==
    { <<Frag(text, conf, 10, 10, 150, 20)>> : text \in MatchTexts, conf \in MatchConfs }
    \cup { <<Frag(<<"A", "b">>, c1, 10, 10, 150, 20), Frag(<<"a", "B">>, c2, 10, 40, 150, 20)>> :
             c1 \in MatchConfs, c2 \in {29, 96} }

InitMatch ==
    /\ target_strings \in MatchTables
    /\ target_listbox = [k \in DOMAIN target_strings |-> target_strings[k].pattern]
    /\ match_mode \in Modes
    /\ confidence_threshold \in MatchThresholds
    /\ monitoring = TRUE
    /\ status_label = "monitoring"
    /\ overlay_windows = <<>>
    /\ detection_count = 0
    /\ overlay_configs = DefaultConfigs
    /\ overlays = [o \in 1..MaxOverlays |-> NoOverlay]
    /\ closed = FALSE
    /\ \E s \in ScreenInputs : screen_width = s.w /\ screen_height = s.h
    /\ pc = [t \in Threads |-> IF t = 1 THEN "ocr" ELSE "none"]
    /\ data = [t \in Threads |-> <<>>]
    /\ thr = [t \in Threads |-> 0]
    /\ mode = [t \in Threads |-> ""]
    /\ row = [t \in Threads |-> 1]
    /\ matches = [t \in Threads |-> <<>>]
    /\ next_match = [t \in Threads |-> 1]
    /\ stop_seen = [t \in Threads |-> FALSE]

NextMatch ==
    \/ \E rows \in MatchFrames : image_to_data(1, rows)
    \/ ocr_error(1)
    \/ match_rows(1)
    \/ \E m \in Modes : set_match_mode(m)
    \/ \E v \in MatchThresholds : set_confidence_threshold(v)

SpecMatch == InitMatch /\ [][NextMatch]_vars

---------------------------------------------------------------------------
(* One whole cycle from the OCR call on, for the same bounded inputs, with *)
(* no handler served while it runs: matching, the overlays, the count.     *)

NextCycle ==
    \/ \E rows \in MatchFrames : image_to_data(1, rows)
    \/ ocr_error(1)
    \/ match_rows(1)
    \/ append_overlay(1)
    \/ cycle_error(1)
    \/ record_stats(1)

SpecCycle == InitMatch /\ [][NextCycle]_vars

---------------------------------------------------------------------------
(* The matching of one cycle row by row, while the Tk main loop serves the *)
(* add and remove buttons: thread 1 is about to call image_to_data with    *)
(* the default targets in force.                                           *)

TargetFrames ==
    { <<Frag(<<"A", "b">>, 90, 10, 10, 150, 20),
        Frag(<<"B">>, 95, 10, 40, 150, 20)>>,
      <<Frag(<<"b">>, 90, 10, 10, 150, 20),
        Frag(<<"a", "b">>, 95, 10, 40, 150, 20),
        Frag(<<"b">>, 96, 10, 70, 150, 20)>> }

InitTargets ==
    /\ target_strings = add_default_targets(<<>>, 1)
    /\ target_listbox = default_listbox
    /\ match_mode \in Modes
    /\ confidence_threshold = DefaultThreshold
    /\ monitoring = TRUE
    /\ status_label = "monitoring"
    /\ overlay_windows = <<>>
    /\ detection_count = 0
    /\ overlay_configs = DefaultConfigs
    /\ overlays = [o \in 1..MaxOverlays |-> NoOverlay]
    /\ closed = FALSE
    /\ \E s \in ScreenInputs : screen_width = s.w /\ screen_height = s.h
    /\ pc = [t \in Threads |-> IF t = 1 THEN "ocr" ELSE "none"]
    /\ data = [t \in Threads |-> <<>>]
    /\ thr = [t \in Threads |-> 0]
    /\ mode = [t \in Threads |-> ""]
    /\ row = [t \in Threads |-> 1]
    /\ matches = [t \in Threads |-> <<>>]
    /\ next_match = [t \in Threads |-> 1]
    /\ stop_seen = [t \in Threads |-> FALSE]

NextTargets ==
    \/ \E rows \in TargetFrames : image_to_data(1, rows)
    \/ match_row(1)
    \/ \E e \in EntryInputs, n \in NoteInputs : add_target(e, n)
    \/ \E i \in 1..MaxList : remove_target(i)

SpecTargets == InitTargets /\ [][NextTargets]_vars

---------------------------------------------------------------------------
(* The placement of one overlay, for bounded fragments and screens:        *)
(* thread 1 is about to create the overlay of its only match.              *)

PlaceScreens == { [w |-> 1920, h |-> 1080], [w |-> 800, h |-> 600] }
PlaceX == { 0, 100, 249, 250, 540, 1800 }
PlaceY == { 0, 4, 5, 50, 530, 1060 }
PlaceW == { 40, 100, 500, 1700 }
PlaceH == { 20 }

\* the matches placed
PlaceMatches ==
    { [text |-> <<"a">>, note |-> "n1", x |-> x, y |-> y, width |-> w,
       height |-> h, confidence |-> 90, match_type |-> FuzzyLabel] :
      x \in PlaceX, y \in PlaceY, w \in PlaceW, h \in PlaceH }

\* the box of the match lies inside the screen
InBounds(m, sw, sh) ==
    /\ m.x >= 0 /\ m.y >= 0
    /\ m.x + m.width <= sw
    /\ m.y + m.height <= sh

InitPlace ==
    /\ target_strings = add_default_targets(<<>>, 1)
    /\ target_listbox = default_listbox
    /\ match_mode = "fuzzy"
    /\ confidence_threshold = DefaultThreshold
    /\ monitoring = TRUE
    /\ status_label = "monitoring"
    /\ overlay_windows = <<>>
    /\ detection_count = 0
    /\ overlay_configs = DefaultConfigs
    /\ overlays = [o \in 1..MaxOverlays |-> NoOverlay]
    /\ closed = FALSE
    /\ \E s \in PlaceScreens :
          /\ screen_width = s.w
          /\ screen_height = s.h
          /\ \E m \in PlaceMatches :
                /\ InBounds(m, s.w, s.h)
                /\ matches = [t \in Threads |-> IF t = 1 THEN <<m>> ELSE <<>>]
    /\ pc = [t \in Threads |-> IF t = 1 THEN "overlay" ELSE "none"]
    /\ data = [t \in Threads |-> <<>>]
    /\ thr = [t \in Threads |-> 0]
    /\ mode = [t \in Threads |-> ""]
    /\ row = [t \in Threads |-> 1]
    /\ next_match = [t \in Threads |-> 1]
    /\ stop_seen = [t \in Threads |-> FALSE]

NextPlace == append_overlay(1)

SpecPlace == InitPlace /\ [][NextPlace]_vars

---------------------------------------------------------------------------
(* The style tab at work while previews are on screen: the handlers of one  *)
(* style section, the preview buttons and the overlays' timers.            *)

StyleInputs    == { ExactLabel }    \* the style section edited
DurationInputs == { 5 }             \* time scale, tenths of a second
ColorInputs    == { "#0000FF" }     \* colours picked in the chooser
FontInputs     == { 16 }            \* font spinbox
AlphaInputs    == { 3 }             \* alpha scale, tenths

NextStyle ==
    \/ \E mt \in StyleInputs, v \in DurationInputs : update_time(mt, v)
    \/ \E mt \in StyleInputs, c \in ColorInputs,
          color_type \in {"bg_color", "text_color"} :
          choose_color(mt, color_type, c)
    \/ \E mt \in StyleInputs, v \in FontInputs : set_font_size(mt, v)
    \/ \E mt \in StyleInputs, v \in AlphaInputs : set_alpha(mt, v)
    \/ \E mt \in MatchTypes : preview_overlay(mt)
    \/ \E o \in 1..MaxOverlays : overlay_timer(o)

SpecStyle == Init /\ [][NextStyle]_vars

---------------------------------------------------------------------------
(* TimedOverlay and clear_overlays for styles that never expire: a Running *)
(* monitor whose thread 1 is about to create the overlays of its matches,  *)
(* with previews and stop_monitoring.  The time scale of the style tab     *)
(* delivers 0.5 to 10.0 only; a display_duration of 0 or less is what a    *)
(* caller that writes the OverlayConfig itself can set.                    *)

\* the default styles with the durations of two of them at 0 and below 0
UntimedConfigs ==
    [mt \in MatchTypes |->
        CASE mt = ExactLabel    -> [DefaultConfigs[mt] EXCEPT !.display_duration = 0]
          [] mt = ContainsLabel -> [DefaultConfigs[mt] EXCEPT !.display_duration = -10]
          [] mt = FuzzyLabel    -> DefaultConfigs[mt]]

\* the matches of the cycle at hand: one, of any of the three types
ClearMatches ==
    { <<[text |-> <<"a", "b">>, note |-> "n1", x |-> 300, y |-> 200,
         width |-> 100, height |-> 20, confidence |-> 90, match_type |-> mt]>> :
      mt \in MatchTypes }

InitClear ==
    /\ target_strings = add_default_targets(<<>>, 1)
    /\ target_listbox = default_listbox
    /\ match_mode = "fuzzy"
    /\ confidence_threshold = DefaultThreshold
    /\ monitoring = TRUE
    /\ status_label = "monitoring"
    /\ overlay_windows = <<>>
    /\ detection_count = 0
    /\ overlay_configs = UntimedConfigs
    /\ overlays = [o \in 1..MaxOverlays |-> NoOverlay]
    /\ closed = FALSE
    /\ \E s \in ScreenInputs : screen_width = s.w /\ screen_height = s.h
    /\ \E ms \in ClearMatches :
          matches = [t \in Threads |-> IF t = 1 THEN ms ELSE <<>>]
    /\ pc = [t \in Threads |-> IF t = 1 THEN "overlay" ELSE "none"]
    /\ data = [t \in Threads |-> <<>>]
    /\ thr = [t \in Threads |-> 0]
    /\ mode = [t \in Threads |-> ""]
    /\ row = [t \in Threads |-> 1]
    /\ next_match = [t \in Threads |-> 1]
    /\ stop_seen = [t \in Threads |-> FALSE]

NextClear ==
    \/ append_overlay(1)
    \/ \E mt \in MatchTypes : preview_overlay(mt)
    \/ \E o \in 1..MaxOverlays : overlay_timer(o)
    \/ stop_monitoring

SpecClear == InitClear /\ [][NextClear]_vars

---------------------------------------------------------------------------
(* Properties *)

\* a step of thread t that commits a result of its cycle
commits(t) == append_overlay(t) \/ record_stats(t)

\* C1: once stop_monitoring has run while a cycle's capture or OCR was in
\* flight, that cycle's thread creates no overlay, appends nothing to
\* overlay_windows and records no statistics.
C1_NoCommitAfterStop ==
    [][\A t \in Threads : stop_seen[t] => ~commits(t)]_vars

\* positions of monitor_screen inside the body of a cycle
CyclePcs == {"capture", "ocr", "match", "overlay", "stats"}

\* C2: at most one monitor thread is inside a cycle at any time.
C2_SingleCycleInFlight ==
    Cardinality({t \in Threads : pc[t] \in CyclePcs}) <= 1

\* C3: no step of a monitor thread creates an overlay or changes
\* overlay_windows; overlay state changes on the main loop only.
C3_OverlaysOnlyOnMainLoop ==
    [][\A t \in Threads :
          monitor_screen(t) =>
              (overlays' = overlays /\ overlay_windows' = overlay_windows)]_vars

\* C4: stop_monitoring in a Running monitor leaves it Idle, with
\* overlay_windows empty and no overlay alive.
C4_StopDestroysEveryOverlay ==
    [][(monitoring /\ stop_monitoring) =>
          /\ ~monitoring'
          /\ overlay_windows' = <<>>
          /\ \A o \in DOMAIN overlays : ~overlays'[o].alive]_vars

\* C5: while the target set is empty, no step (start_monitoring included)
\* takes the monitor from Idle to Running or starts a monitor thread.
C5_NoStartWithoutTargets ==
    [][(target_strings = <<>> /\ ~monitoring) =>
          /\ ~monitoring'
          /\ \A t \in Threads : pc[t] = "none" => pc'[t] = "none"]_vars

\* C5 witness: start_monitoring was refused for want of targets
C5_Witness ==
    /\ status_label = "need_targets"
    /\ target_strings = <<>>
    /\ ~monitoring
    /\ \A t \in Threads : pc[t] = "none"

\* C6: every step that takes monitoring from TRUE to FALSE is a
\* stop_monitoring call, directly or through on_closing.
C6_IdleOnlyByStop ==
    [][(monitoring /\ ~monitoring') => (stop_monitoring \/ on_closing)]_vars

\* the sleeps of 1 s after a failed capture and after a caught exception
BackOff == {"sleep_capture", "sleep_error"}

\* C7: a monitor thread ends only when monitoring is FALSE, and from every
\* back-off after a failed capture or a caught exception the thread begins
\* another cycle, unless the monitor has left Running.
C7_ErrorsNeverEndSession ==
    /\ [][\A t \in Threads :
             (pc[t] # "none" /\ pc'[t] = "none") => ~monitoring']_vars
    /\ \A t \in Threads :
          [](pc[t] \in BackOff => <>(pc[t] = "capture" \/ ~monitoring))

\* C7 witness: a thread backs off after a caught exception, monitor Running
C7_Witness ==
    \E t \in Threads : pc[t] = "sleep_error" /\ monitoring

\* C8: the placed overlay never has x < 0 or y < 0, and the fragment
\* x=1800, y=50, w=100, h=20 on a 1920-wide screen is placed at x = 1550.
C8_PositionNeverNegative ==
    \A o \in DOMAIN overlays :
        overlays[o].alive =>
            /\ overlays[o].x >= 0
            /\ overlays[o].y >= 0
            /\ \A t \in Threads :
                  (/\ pc[t] = "stats"
                   /\ screen_width = 1920
                   /\ matches[t] # <<>>
                   /\ matches[t][1].x = 1800 /\ matches[t][1].y = 50
                   /\ matches[t][1].width = 100 /\ matches[t][1].height = 20)
                  => overlays[o].x = 1550

\* the thread holds the matches of the rows it read
Matched(t) == pc[t] \in {"overlay", "stats"} /\ data[t] # <<>>

\* match m was made from row r
FromRow(m, r) ==
    /\ m.text = Strip(r.text)
    /\ m.confidence = r.conf
    /\ m.x = r.left /\ m.y = r.top
    /\ m.width = r.width /\ m.height = r.height

\* C9: no row whose confidence is below the threshold read for the cycle
\* gives a match, in any mode and for any target set.
C9_ThresholdIsHardFilter ==
    \A t \in Threads :
        Matched(t) =>
            \A i \in DOMAIN data[t] :
                data[t][i].conf < thr[t] =>
                    ~\E k \in DOMAIN matches[t] : FromRow(matches[t][k], data[t][i])

\* C9 witness: a row below the threshold that the mode's predicate accepts
\* for some target was left out, while another row matched
C9_Witness ==
    /\ Matched(1)
    /\ matches[1] # <<>>
    /\ thr[1] # confidence_threshold
    /\ \E i \in DOMAIN data[1] :
          /\ data[1][i].conf < thr[1]
          /\ data[1][i].conf >= 0
          /\ \E k \in DOMAIN target_strings :
                match_found(mode[1], Strip(data[1][i].text),
                            target_strings[k].pattern)

\* C10: in Exact mode a row that passes the filter gives a match for a
\* target exactly when its lowered text equals the target's pattern.
C10_ExactIffEqual ==
    \A t \in Threads :
        (Matched(t) /\ mode[t] = "exact") =>
            \A i \in DOMAIN data[t] :
                passes_filter(Strip(data[t][i].text), data[t][i].conf, thr[t]) =>
                    \A j \in DOMAIN target_strings :
                        (\E k \in DOMAIN matches[t] :
                            /\ FromRow(matches[t][k], data[t][i])
                            /\ matches[t][k].note = target_strings[j].note
                            /\ matches[t][k].match_type = ExactLabel)
                        <=> (Lower(Strip(data[t][i].text)) = target_strings[j].pattern)

\* C10 witness: in Exact mode a row of mixed case matched one target and
\* not another that contains it
C10_Witness ==
    /\ Matched(1)
    /\ mode[1] = "exact"
    /\ Len(matches[1]) = 1
    /\ matches[1][1].text # Lower(matches[1][1].text)
    /\ Len(target_strings) >= 2


\* row i of thread t's data gave a match for target j of the table
Produced(t, i, j) ==
    \E k \in DOMAIN matches[t] :
        /\ FromRow(matches[t][k], data[t][i])
        /\ matches[t][k].note = target_strings[j].note

\* row i of thread t's data passed the filter of line 432
Passed(t, i) ==
    passes_filter(Strip(data[t][i].text), data[t][i].conf, thr[t])

\* C11: in Contains mode a row that passes the filter gives a match for a
\* target exactly when the lowered text contains the pattern or the pattern
\* contains the lowered text, and exactly when the predicate holds with the
\* roles of text and pattern swapped.
C11_ContainsSymmetric ==
    \A t \in Threads :
        (Matched(t) /\ mode[t] = "contains") =>
            \A i \in DOMAIN data[t] :
                Passed(t, i) =>
                    \A j \in DOMAIN target_strings :
                        LET text == Strip(data[t][i].text)
                            p    == target_strings[j].pattern
                        IN  /\ Produced(t, i, j) <=>
                                  (\/ IsSubstring(p, Lower(text))
                                   \/ IsSubstring(Lower(text), p))
                            /\ Produced(t, i, j) <=>
                                  match_found("contains", p, text)

\* C11 witness: in Contains mode a row matched a target whose pattern is
\* longer than the text and contains it
C11_Witness ==
    /\ Matched(1)
    /\ mode[1] = "contains"
    /\ \E i \in DOMAIN data[1], j \in DOMAIN target_strings :
          /\ Produced(1, i, j)
          /\ Len(Strip(data[1][i].text)) < Len(target_strings[j].pattern)

\* C12: in Fuzzy mode the matched length, and with it the ratio, of text and
\* pattern is the same in both orders, so a row gives a match for a target
\* exactly when fuzzy_match holds with text and pattern swapped.
C12_FuzzySymmetric ==
    \A t \in Threads :
        (Matched(t) /\ mode[t] = "fuzzy") =>
            \A i \in DOMAIN data[t] :
                Passed(t, i) =>
                    \A j \in DOMAIN target_strings :
                        LET a == Lower(Strip(data[t][i].text))
                            b == Lower(target_strings[j].pattern)
                        IN  /\ MatchedLength(a, b, 1, Len(a), 1, Len(b))
                                  = MatchedLength(b, a, 1, Len(b), 1, Len(a))
                            /\ Produced(t, i, j) <=>
                                  fuzzy_match(target_strings[j].pattern,
                                              Strip(data[t][i].text))


\* C13: no step changes the options shown, the delay of the timer or the
\* pending timer of an overlay that is on screen before and after the step,
\* whatever is written to overlay_configs.
C13_StyleFixedAtCreation ==
    [][\A o \in DOMAIN overlays :
          (overlays[o].alive /\ overlays'[o].alive) =>
              /\ overlays'[o].shown = overlays[o].shown
              /\ overlays'[o].delay = overlays[o].delay
              /\ overlays'[o].timer = overlays[o].timer]_vars

\* C13 witness: an overlay on screen whose style was edited after it was
\* created, in duration, colours, font size and alpha
C13_Witness ==
    \E o \in DOMAIN overlays :
        LET config == overlay_configs[overlays[o].match_type]
        IN  /\ overlays[o].alive
            /\ overlays[o].delay # config.display_duration
            /\ overlays[o].shown.bg_color # config.bg_color
            /\ overlays[o].shown.text_color # config.text_color
            /\ overlays[o].shown.font_size # config.font_size
            /\ overlays[o].shown.alpha # config.alpha


\* overlay o, on screen with its timer pending, is gone after the step
ClosedEarly(o) ==
    overlays[o].alive /\ overlays[o].timer /\ ~overlays'[o].alive

\* C14: an overlay created with a duration greater than 0 is eventually
\* destroyed; before its timer fires only a global stop (stop_monitoring,
\* directly or through the window close) destroys it; and a destroyed overlay
\* is never on screen again.
C14_TimerDestroysOverlay ==
    /\ \A o \in 1..MaxOverlays :
          [](overlays[o].alive /\ overlays[o].timer => <>~overlays[o].alive)
    /\ [][\A o \in DOMAIN overlays :
             ClosedEarly(o) =>
                 (overlay_timer(o) \/ stop_monitoring \/ on_closing)]_vars
    /\ [][\A o \in DOMAIN overlays :
             (~overlays[o].alive /\ overlays'[o].alive) => o \in FreeSlots]_vars


\* overlay o is on screen and was created with a duration of 0 or less
Untimed(o) == overlays[o].alive /\ ~overlays[o].timer

\* C15: no timer destroys an overlay created with a duration of 0 or less,
\* and stop_monitoring's clear_overlays destroys every such overlay that is
\* on screen, whether a cycle or preview_overlay created it.
C15_ClearDestroysUntimed ==
    /\ [][\A o \in DOMAIN overlays :
             (Untimed(o) /\ ~overlays'[o].alive) => ~overlay_timer(o)]_vars
    /\ [][stop_monitoring =>
             \A o \in DOMAIN overlays : Untimed(o) => ~overlays'[o].alive]_vars


\* the listed overlays that are still on screen
live_windows == SelectSeq(overlay_windows, LAMBDA o : overlays[o].alive)

C17_OnlyStopForceCloses ==
    [][\A o \in DOMAIN overlays :
           (overlays[o].alive /\ ~overlays'[o].alive) =>
               \/ overlay_timer(o)
               \/ stop_monitoring
               \/ on_closing]_vars


\* the (fragment, target) pairs of thread t's frame that pass the threshold
\* and satisfy the predicate of the cycle's mode
Pairs(t) ==
    { p \in (DOMAIN data[t]) \X (DOMAIN target_strings) :
        LET text == Strip(data[t][p[1]].text)
        IN  /\ passes_filter(text, data[t][p[1]].conf, thr[t])
            /\ match_found(mode[t], text, target_strings[p[2]].pattern) }

\* C18: the cycle returns as many Matches as there are (fragment, target)
\* pairs that pass the threshold and satisfy the mode's predicate, and it
\* creates one overlay for each Match: after j turns of the loop over the
\* matches there are j overlays, in j windows, the j-th made from the j-th
\* Match, and the loop ends when every Match has its overlay.
C18_NoDeduplication ==
    \A t \in Threads :
        Matched(t) =>
            /\ Len(matches[t]) = Cardinality(Pairs(t))
            /\ Len(overlay_windows) = next_match[t] - 1
            /\ Cardinality(Range(overlay_windows)) = Len(overlay_windows)
            /\ \A j \in DOMAIN overlay_windows :
                  overlays[overlay_windows[j]] = create_overlay(matches[t][j])
            /\ pc[t] = "stats" => Len(overlay_windows) = Len(matches[t])

\* C18 witness: the one fragment of a frame matched two targets, and the
\* cycle has made the two overlays
C18_Witness ==
    /\ pc[1] = "stats"
    /\ Len(data[1]) = 1
    /\ Len(matches[1]) = 2
    /\ Len(overlay_windows) = 2


\* C19: add_target and remove_target served while a cycle is matching do not
\* reach it: the Matches of the cycle are those of its frame against the
\* target set in force when the cycle started, here the default targets.
C19_TargetsFixedForCycle ==
    Matched(1) =>
        matches[1] = find_text_matches(data[1], add_default_targets(<<>>, 1),
                                       mode[1], thr[1], 1)


\* what a cycle of the monitor can write
cycle_frame == <<local_vars, overlay_windows, overlays, detection_count>>

\* C20: a thread at its capture goes on to the OCR only with an image; with
\* none it goes to the 1 s sleep and that step writes no locals, no overlay
\* and no count; from the sleep it goes nowhere but back to the `while`
\* test, writing nothing; and a capture is entered from the `while` test
\* only, so the failed capture is not tried again within the cycle. The one
\* other way out is on_closing, which ends the process and its threads.
C20_FailedCaptureEndsCycle ==
    [][\A t \in Threads :
           \/ closed'
           \/ /\ (pc[t] = "capture" /\ pc'[t] # "capture") =>
                     pc'[t] \in {"ocr", "sleep_capture"}
              /\ (pc[t] = "capture" /\ pc'[t] = "sleep_capture") =>
                     UNCHANGED cycle_frame
              /\ (pc[t] = "sleep_capture" /\ pc'[t] # "sleep_capture") =>
                     pc'[t] = "while" /\ UNCHANGED cycle_frame
              /\ (pc[t] # "capture" /\ pc'[t] = "capture") =>
                     pc[t] = "while" /\ monitoring]_vars

\* C20 witness: a capture has failed and its thread sleeps, with nothing read
\* and nothing matched
C20_Witness ==
    \E t \in Threads :
        pc[t] = "sleep_capture" /\ data[t] = <<>> /\ matches[t] = <<>>


\* C21: start_monitoring served while self.monitoring is set starts no
\* thread and leaves monitoring, the targets and overlay_windows as they are.
C21_StartWhileRunningIsNoOp ==
    [][(monitoring /\ start_monitoring) =>
           UNCHANGED <<pc, monitoring, target_strings, target_listbox,
                       overlay_windows, overlays>>]_vars

\* C21 witness: the start button was pressed in a running monitor whose
\* targets had all been removed, which only the status label shows
C21_Witness ==
    /\ monitoring
    /\ status_label = "need_targets"
    /\ \E t \in Threads : pc[t] # "none"


\* C22: between two clears overlay_windows only grows. A step leaves the
\* list as it is, or is a turn of a cycle's loop over its matches, which
\* appends the one overlay made for that Match, or is the clear of
\* stop_monitoring (on_closing calls it), which empties it; the timer of an
\* overlay in the list leaves the list as it is.
C22_ListGrowsUntilClear ==
    [][/\ \/ overlay_windows' = overlay_windows
          \/ /\ \E t \in Threads : append_overlay(t)
             /\ Len(overlay_windows') = Len(overlay_windows) + 1
             /\ SubSeq(overlay_windows', 1, Len(overlay_windows)) = overlay_windows
          \/ /\ stop_monitoring \/ on_closing
             /\ overlay_windows' = <<>>
       /\ \A o \in DOMAIN overlays :
             overlay_timer(o) => overlay_windows' = overlay_windows]_vars


\* C23: for a fragment inside a screen at least 250 wide and 60 high, the
\* overlay is placed with x + 250 <= screen width or x = fragment.x - 250,
\* and always with y + 60 <= screen height.
C23_NotPastRightOrBottom ==
    \A o \in DOMAIN overlays :
        (/\ overlays[o].alive
         /\ pc[1] = "stats" /\ matches[1] # <<>>
         /\ InBounds(matches[1][1], screen_width, screen_height)
         /\ screen_width >= 250 /\ screen_height >= 60)
        => /\ \/ overlays[o].x + 250 <= screen_width
              \/ overlays[o].x = matches[1][1].x - 250
           /\ overlays[o].y + 60 <= screen_height

\* C23 witness: an overlay whose fragment lies so far right and so low that
\* it was moved to the fragment's left and up to the bottom edge
C23_Witness ==
    \E o \in DOMAIN overlays :
        /\ overlays[o].alive
        /\ pc[1] = "stats" /\ matches[1] # <<>>
        /\ matches[1][1].x + matches[1][1].width + 10 + 250 > screen_width
        /\ matches[1][1].y - 5 + 60 > screen_height
        /\ overlays[o].x = matches[1][1].x - 250
        /\ overlays[o].y = screen_height - 60

===========================================================================
